---- MODULE Spec2Model ----
(***************************************************************************)
(* geofilter: a reverse proxy that admits or rejects HTTP requests by the  *)
(* requester's country.  The model covers the request handler              *)
(* (proxy.getHandler), the option constructors that build the filter and   *)
(* the action, the database handle with its sync.RWMutex, the reload       *)
(* performed by the file watcher goroutine (reloadGeoDb) and the start-up  *)
(* sequence New / Start.                                                   *)
(*                                                                         *)
(* Library behaviour the code relies on is modelled as the library         *)
(* implements it:                                                          *)
(*   - sync.RWMutex (Go 1.14): readerCount, readerWait, the writer mutex w *)
(*     and the two semaphores; Unlock of a mutex that is not write-locked  *)
(*     is a fatal error that ends the process.                             *)
(*   - geoip2.Reader.Country (v1.4.0): an address without a record gives   *)
(*     an empty Country and a nil error; an error is returned only when    *)
(*     the lookup itself fails.                                            *)
(***************************************************************************)
EXTENDS Integers, Sequences, FiniteSets, TLC

(* ---------------------------- bounds ----------------------------------- *)
NumReq == 2
MaxEvents == 2

(* ------------------------- program constants --------------------------- *)
StatusOK == 200
StatusTemporaryRedirect == 307
StatusBadRequest == 400
StatusForbidden == 403
rwmutexMaxReaders == 2^30

geoHeaderName == "X-Geo-Country"

Reqs == 1..NumReq
NoHandle == 0

(* ------------------------------ data ----------------------------------- *)
Countries == {"US", "DE"}
IPs == {"1.1.1.1", "2.2.2.2", "::3"}

\* Versions of the database file found at dbPath.  "bad" cannot be opened.
DbVersions == {"v1", "v2"}
FileStates == DbVersions \cup {"bad"}

\* What geoip2.Reader.Country returns for a handle opened from version v:
\* a record with an ISO code, an empty record without error when the address
\* has no entry, an error when the lookup fails (an IPv6 address looked up
\* in an IPv4-only file).
Country(v, ip) ==
    IF ip = "::3" THEN [err |-> TRUE, IsoCode |-> "", panic |-> FALSE]
    ELSE IF ip = "1.1.1.1" THEN [err |-> FALSE, IsoCode |-> "US", panic |-> FALSE]
    ELSE IF v = "v2" THEN [err |-> FALSE, IsoCode |-> "DE", panic |-> FALSE]
    ELSE [err |-> FALSE, IsoCode |-> "", panic |-> FALSE]

\* Addresses are sequences of lexical tokens: <<>> is the empty string,
\* <<ip>> an IP literal, <<host, ":", port>> a host:port pair.
Empty == <<>>

\* net.ParseIP: the whole string must be one IP literal; "" stands for nil.
ParseIP(s) == IF Len(s) = 1 /\ s[1] \in IPs THEN s[1] ELSE ""

\* net.SplitHostPort: succeeds on host ":" port.
SplitHostPort(s) ==
    IF Len(s) = 3 /\ s[2] = ":" THEN [ok |-> TRUE, host |-> <<s[1]>>]
    ELSE [ok |-> FALSE, host |-> Empty]

\* Variant of getRemoteAddr that skips a source that is no address.
getRemoteAddr_skipInvalid(r) ==
    IF ParseIP(r.xff) # "" \/ ParseIP(SplitHostPort(r.xff).host) # "" THEN r.xff
    ELSE IF ParseIP(r.realIp) # "" \/ ParseIP(SplitHostPort(r.realIp).host) # "" THEN r.realIp
    ELSE r.remoteAddr

\* Variant of getRemoteAddr that reads X-Real-Ip before X-Forwarded-For.
getRemoteAddr_realIpFirst(r) ==
    IF r.realIp # Empty THEN r.realIp
    ELSE IF r.xff # Empty THEN r.xff
    ELSE r.remoteAddr

\* proxy_utils.go getRemoteAddr: first non-empty of X-Forwarded-For,
\* X-Real-Ip, RemoteAddr.
getRemoteAddr(r) ==
    IF r.xff # Empty THEN r.xff
    ELSE IF r.realIp # Empty THEN r.realIp
    ELSE r.remoteAddr

\* proxy_utils.go getIP.
getIP(addr) ==
    IF ParseIP(addr) = "" /\ SplitHostPort(addr).ok
    THEN ParseIP(SplitHostPort(addr).host)
    ELSE ParseIP(addr)


(* ----------------------- options: filter and action -------------------- *)
\* proxy.go WithNoFilter / WithAllowedCountries / WithBlockedCountries: the
\* closure stored in proxy.filter, kept as the captured map and its kind.
WithNoFilter == [kind |-> "none", countries |-> {}]
WithAllowedCountries(countries) == [kind |-> "allow", countries |-> countries]
WithBlockedCountries(countries) == [kind |-> "block", countries |-> countries]

\* Variant of filterFunc whose block list admits its members.
filterFunc_blockMembers(f, c) ==
    IF f.kind = "allow" THEN c \in f.countries
    ELSE IF f.kind = "block" THEN c \in f.countries
    ELSE TRUE

\* Calling the closure: allowedCountries[c], !blockedCountries[c], true.
filterFunc(f, c) ==
    IF f.kind = "allow" THEN c \in f.countries
    ELSE IF f.kind = "block" THEN ~(c \in f.countries)
    ELSE TRUE

Filters ==
    {WithNoFilter}
    \cup {WithAllowedCountries(S) : S \in (SUBSET Countries) \ {{}}}
    \cup {WithBlockedCountries(S) : S \in (SUBSET Countries) \ {{}}}

\* Configured texts.
message == "Blocked"
redirectUrl == "https://example.com"
filePath == "blocked.html"
PageVersions == {"page1", "page2"}

\* proxy.go WithMessage: responseData is the text inside the HTML template,
\* computed once when the option runs.
tmplHead == "<!DOCTYPE html><html><head><meta charset=\"utf-8\"></head><body>"
tmplTail == "</body></html>"
WithMessage(m) == [kind |-> "message", responseData |-> <<tmplHead, m, tmplTail>>]
WithRedirect(u) == [kind |-> "redirect", redirectUrl |-> u]
WithFile(f) == [kind |-> "file", filePath |-> f]
defaultAction == [kind |-> "default"]

Actions == {defaultAction, WithMessage(message), WithRedirect(redirectUrl), WithFile(filePath)}

\* The response a handler has written: status, body, Location header.
Response(status, body, location) ==
    [status |-> status, body |-> body, location |-> location]

\* Variant of actionFunc whose file action serves the content read when the
\* option was built.
actionFunc_cached(a, page) ==
    IF a.kind = "default" THEN Response(StatusForbidden, <<>>, "")
    ELSE IF a.kind = "message" THEN Response(StatusOK, a.responseData, "")
    ELSE IF a.kind = "redirect"
    THEN Response(StatusTemporaryRedirect,
                  <<"<a href=\"", a.redirectUrl, "\">Temporary Redirect</a>">>,
                  a.redirectUrl)
    ELSE Response(StatusOK, <<"page1">>, "")

\* Calling the closure stored in proxy.action.  page is the content of the
\* file at filePath when the action runs.
actionFunc(a, page) ==
    IF a.kind = "default" THEN Response(StatusForbidden, <<>>, "")
    ELSE IF a.kind = "message" THEN Response(StatusOK, a.responseData, "")
    ELSE IF a.kind = "redirect"
    THEN Response(StatusTemporaryRedirect,
                  <<"<a href=\"", a.redirectUrl, "\">Temporary Redirect</a>">>,
                  a.redirectUrl)
    ELSE Response(StatusOK, <<page>>, "")

(* --------------------------- the command line -------------------------- *)
\* Values of the --allow and --block flags.
ListValues == {"", " ", "US", "DE", "US,DE", "Germany", "XX", ",", "US,XX"}

\* strings.TrimSpace: of the flag values only " " has white space at an end.
TrimSpace(s) == IF s = " " THEN "" ELSE s

\* strings.Split(s, ","): the fields between the commas; one empty field for
\* the empty string.
Split(s) ==
    CASE s = "US,DE" -> <<"US", "DE">>
      [] s = "US,XX" -> <<"US", "XX">>
      [] s = "," -> <<"", "">>
      [] OTHER -> <<s>>

\* countries.ByName and Alpha2: a country is recognised by its code or its
\* name, whatever the case; Unknown otherwise.
ByName(c) ==
    IF c \in {"US", "us"} THEN "US"
    ELSE IF c \in {"DE", "Germany"} THEN "DE"
    ELSE "Unknown"

RECURSIVE knownCountries(_)
\* start_proxy.go getCountriesOpt, lines 38-48: the Alpha2 codes of the
\* recognised fields, in order; empty fields are skipped.
knownCountries(fields) ==
    IF fields = <<>> THEN <<>>
    ELSE IF Head(fields) = "" \/ ByName(Head(fields)) = "Unknown"
    THEN knownCountries(Tail(fields))
    ELSE <<ByName(Head(fields))>> \o knownCountries(Tail(fields))

RECURSIVE unknownCountries(_)
\* getCountriesOpt: the non-empty fields that name no country.
unknownCountries(fields) ==
    IF fields = <<>> THEN <<>>
    ELSE IF Head(fields) # "" /\ ByName(Head(fields)) = "Unknown"
    THEN <<Head(fields)>> \o unknownCountries(Tail(fields))
    ELSE unknownCountries(Tail(fields))

\* An option handed to New: the constructor's name and its argument.
Opt(name, arg) == [name |-> name, arg |-> arg]
NoOpt == Opt("", <<>>)

\* start_proxy.go getCountriesOpt: the policy option, or an error when a
\* list was given and none of its fields is a country.
getCountriesOpt(allowed, blocked) ==
    LET allowedCountries == knownCountries(Split(allowed))
        blockedCountries == knownCountries(Split(blocked))
        unknown == unknownCountries(Split(allowed)) \o unknownCountries(Split(blocked))
        emptyErr == IF unknown = <<>> THEN "unknown country names: []"
                    ELSE "empty countries list"
    IN  IF allowed # ""
        THEN IF allowedCountries = <<>> THEN [err |-> emptyErr, opt |-> NoOpt]
             ELSE [err |-> "", opt |-> Opt("WithAllowedCountries", allowedCountries)]
        ELSE IF blocked # ""
        THEN IF blockedCountries = <<>> THEN [err |-> emptyErr, opt |-> NoOpt]
             ELSE [err |-> "", opt |-> Opt("WithBlockedCountries", blockedCountries)]
        ELSE [err |-> "", opt |-> Opt("WithNoFilter", <<>>)]

\* start_proxy.go startProxy, lines 120-137: the options after the policy.
actionOpts(f) ==
    (IF TrimSpace(f.message) # "" THEN <<Opt("WithMessage", TrimSpace(f.message))>> ELSE <<>>)
    \o (IF TrimSpace(f.redirect) # "" THEN <<Opt("WithRedirect", TrimSpace(f.redirect))>> ELSE <<>>)
    \o (IF TrimSpace(f.file) # "" THEN <<Opt("WithFile", TrimSpace(f.file))>> ELSE <<>>)
    \o (IF f.watch THEN <<Opt("WithAutoReload", <<>>)>> ELSE <<>>)

\* Variant of startProxyOpts without the check of --allow against --block.
startProxyOpts_noListCheck(f) ==
    LET allowed == TrimSpace(f.allowed)
        blocked == TrimSpace(f.blocked)
        countriesOpt == getCountriesOpt(allowed, blocked)
    IN  IF f.message # "" /\ f.redirect # ""
        THEN [err |-> "--redirect and --message options are mutually exclusive", opts |-> <<>>]
        ELSE IF countriesOpt.err # ""
        THEN [err |-> countriesOpt.err, opts |-> <<>>]
        ELSE [err |-> "", opts |-> <<countriesOpt.opt>> \o actionOpts(f)]

\* start_proxy.go startProxy, lines 100-137: the checks of the flags and the
\* options built from them.
startProxyOpts(f) ==
    LET allowed == TrimSpace(f.allowed)
        blocked == TrimSpace(f.blocked)
        countriesOpt == getCountriesOpt(allowed, blocked)
    IN  IF allowed # "" /\ blocked # ""
        THEN [err |-> "--allow and --block options are mutually exclusive", opts |-> <<>>]
        ELSE IF f.message # "" /\ f.redirect # ""
        THEN [err |-> "--redirect and --message options are mutually exclusive", opts |-> <<>>]
        ELSE IF countriesOpt.err # ""
        THEN [err |-> countriesOpt.err, opts |-> <<>>]
        ELSE [err |-> "", opts |-> <<countriesOpt.opt>> \o actionOpts(f)]

\* The elements of a list, as the keys of the map built from it.
Range(l) == {l[i] : i \in 1..Len(l)}

\* proxy.go New, line 317: the proxy before the options ran: no filter, the
\* default action.
NilFilter == [kind |-> "nil", countries |-> {}]

\* Variant of applyOption whose country options accept an empty list.
applyOption_unchecked(p, o) ==
    IF o.name = "WithNoFilter" THEN [p EXCEPT !.filter = WithNoFilter]
    ELSE IF o.name = "WithAllowedCountries"
    THEN [p EXCEPT !.filter = WithAllowedCountries(Range(o.arg))]
    ELSE IF o.name = "WithBlockedCountries"
    THEN [p EXCEPT !.filter = WithBlockedCountries(Range(o.arg))]
    ELSE IF o.name = "WithMessage" THEN [p EXCEPT !.action = WithMessage(o.arg)]
    ELSE IF o.name = "WithRedirect" THEN [p EXCEPT !.action = WithRedirect(o.arg)]
    ELSE IF o.name = "WithFile" THEN [p EXCEPT !.action = WithFile(o.arg)]
    ELSE p

\* proxy.go, lines 215-312: an option applied to the proxy.  The country
\* options fail on an empty list; WithAutoReload is played by the steps of
\* startWatchingDb.
applyOption(p, o) ==
    IF o.name = "WithNoFilter" THEN [p EXCEPT !.filter = WithNoFilter]
    ELSE IF o.name = "WithAllowedCountries"
    THEN IF Len(o.arg) = 0 THEN [p EXCEPT !.err = "allowed countries are not specified"]
         ELSE [p EXCEPT !.filter = WithAllowedCountries(Range(o.arg))]
    ELSE IF o.name = "WithBlockedCountries"
    THEN IF Len(o.arg) = 0 THEN [p EXCEPT !.err = "blocked countries are not specified"]
         ELSE [p EXCEPT !.filter = WithBlockedCountries(Range(o.arg))]
    ELSE IF o.name = "WithMessage" THEN [p EXCEPT !.action = WithMessage(o.arg)]
    ELSE IF o.name = "WithRedirect" THEN [p EXCEPT !.action = WithRedirect(o.arg)]
    ELSE IF o.name = "WithFile" THEN [p EXCEPT !.action = WithFile(o.arg)]
    ELSE p

RECURSIVE applyOptions(_, _)
\* proxy.go New, lines 327-331: the options run in order; the first error
\* ends New.
applyOptions(p, os) ==
    IF os = <<>> \/ p.err # "" THEN p
    ELSE applyOptions(applyOption(p, Head(os)), Tail(os))

(* ------------------------------ state ---------------------------------- *)
VARIABLES
    flags,      \* the command line: message, redirect, file, allowed, blocked, watch
    opts,       \* the options New is called with
    dbLink,     \* what is found at dbPath: a regular file or a symlink to one
    filter,     \* proxy.filter
    action,     \* proxy.action
    setup,      \* startWatchingDb: the setup goroutine, setupWG, the fsnotify watcher
    resolve,    \* proxy.resolve: "resolveIp" or "resolveIpWithLock"
    db,         \* proxy.db: current handle, NoHandle for nil
    logger,     \* proxy.logger is set
    dbLock,     \* proxy.dbLock, a sync.RWMutex
    handles,    \* every geoip2.Reader opened so far: its data, open or closed
    dbFile,     \* content of the file at dbPath
    pageFile,   \* content of the file served by WithFile
    events,     \* watcher.Events channel
    nEvents,    \* number of file writes so far
    mpc,        \* position of the main goroutine (New, Start)
    startDb,    \* Start's local db
    watcher,    \* watcher goroutine: position, newDb, oldDb, err
    req,        \* handler goroutines, one per request
    fatal       \* reason of the fatal error that ended the process, or ""

vars == <<flags, opts, dbLink, filter, action, setup, resolve, db, logger, dbLock, handles, dbFile,
          pageFile, events, nEvents, mpc, startDb, watcher, req, fatal>>

cfgVars == <<flags, opts, dbLink, filter, action>>
fileVars == <<dbFile, pageFile, events, nEvents>>

\* The Host header every client sends, and the X-Geo-Country values a client
\* may supply itself ("" when it sends none).
inboundHost == "geofilter.example"
ClientGeo == {"", "DE", "ZZ"}

\* Inbound requests: the two address headers, the connection address, the
\* Host header and the client's own X-Geo-Country header.
Inbound ==
    [xff : {Empty, <<"2.2.2.2">>, <<"::3">>, <<"example.com">>,
            <<"example.com", ":", "80">>, <<"1.1.1.1", ",", "2.2.2.2">>},
     realIp : {Empty, <<"2.2.2.2">>, <<"example.com">>},
     remoteAddr : {<<"1.1.1.1", ":", "80">>},
     host : {inboundHost},
     geo : {""}]

NoInbound == [xff |-> Empty, realIp |-> Empty, remoteAddr |-> Empty, host |-> "", geo |-> ""]
NoCountry == [err |-> FALSE, IsoCode |-> "", panic |-> FALSE]
NoOutcome ==
    [kind |-> "none", res |-> Response(0, <<>>, ""), geo |-> "", page |-> ""]

\* http.Header restricted to the headers the proxy reads or writes: Get of
\* an absent header is "", Set replaces whatever value was there.
NoHeader == [n \in {} |-> ""]
HeaderGet(h, name) == IF name \in DOMAIN h THEN h[name] ELSE ""
HeaderSet(h, name, v) == [n \in DOMAIN h \cup {name} |-> IF n = name THEN v ELSE h[n]]

\* The *http.Request the server hands to the handler: net/http promotes the
\* Host header to the Host field and deletes it from the Header map; the URL
\* of a server request has neither scheme nor host.
Request(in) ==
    [URL |-> [Scheme |-> "", Host |-> ""],
     Host |-> in.host,
     Header |-> IF in.geo = "" THEN NoHeader ELSE HeaderSet(NoHeader, geoHeaderName, in.geo)]

NoForward == [URL |-> [Scheme |-> "", Host |-> ""], Host |-> "", Header |-> NoHeader]

\* url.Parse of the --target value of the usage example.
targetUrl == [Scheme |-> "http", Host |-> "localhost:4001"]

\* serveReverseProxy: the request as it is handed to the reverse proxy.
serveReverseProxy(target, request) ==
    [URL |-> [Scheme |-> target.Scheme, Host |-> target.Host],
     Host |-> target.Host,
     Header |-> HeaderSet(request.Header, "X-Forwarded-Host", HeaderGet(request.Header, "Host"))]

IdleReq ==
    [pc |-> "idle", in |-> NoInbound, addr |-> Empty, ip |-> "", h |-> NoHandle,
     country |-> NoCountry, calls |-> <<>>, out |-> NoOutcome, fwd |-> NoForward]

NewLock ==
    [readerCount |-> 0, readerWait |-> 0, w |-> FALSE, readerSem |-> 0]

IdleWatcher == [pc |-> "off", newDb |-> NoHandle, oldDb |-> NoHandle, err |-> FALSE]

\* startWatchingDb before it is called: no setup goroutine, setupWG at zero,
\* no directory watched, the fsnotify watcher not closed.
NoSetup == [pc |-> "off", setupWG |-> 0, attached |-> FALSE, closed |-> FALSE]

\* The flags of a command line.
Flags ==
    [message : {"", " ", message}, redirect : {"", redirectUrl},
     file : {"", filePath}, allowed : ListValues, blocked : ListValues,
     watch : BOOLEAN]
NoFlags ==
    [message |-> "", redirect |-> "", file |-> "", allowed |-> "",
     blocked |-> "", watch |-> FALSE]

\* Option lists of a program that calls proxy.New itself.
DirectOpts ==
    { <<Opt(n, l)>> : n \in {"WithAllowedCountries", "WithBlockedCountries"},
                      l \in {<<>>, <<"US">>, <<"us">>, <<"US", "DE">>} }

\* WithAutoReload is among the options.
watch == \E i \in 1..Len(opts) : opts[i].name = "WithAutoReload"

\* The process starts in startProxy with its flags, or in a program that
\* calls New with its own options.
Init ==
    /\ \/ mpc = "startProxy" /\ flags \in Flags /\ opts = <<>>
       \/ mpc = "New" /\ flags = NoFlags /\ opts \in DirectOpts
    /\ dbLink \in {"file", "symlink"}
    /\ filter = NilFilter
    /\ action = defaultAction
    /\ setup = NoSetup
    /\ resolve = "resolveIp"
    /\ db = NoHandle
    /\ logger = FALSE
    /\ dbLock = NewLock
    /\ handles = <<>>
    /\ dbFile = "v1"
    /\ pageFile = "page1"
    /\ events = <<>>
    /\ nEvents = 0
    /\ startDb = NoHandle
    /\ watcher = IdleWatcher
    /\ req = [r \in Reqs |-> IdleReq]
    /\ fatal = ""

\* The process is alive: no fatal error, main has not returned.
Running == fatal = "" /\ mpc # "exit"

(* --------------------------- sync.RWMutex ------------------------------ *)
\* RLock: add one reader; the caller must wait on readerSem when the count is
\* negative (a writer is pending or active).
RLock(l) == [l EXCEPT !.readerCount = @ + 1]
RLockBlocks(l) == RLock(l).readerCount < 0

\* Lock: take w, announce the writer, count the readers to wait for.
Lock(l) ==
    [l EXCEPT !.w = TRUE,
              !.readerCount = @ - rwmutexMaxReaders,
              !.readerWait = @ + l.readerCount]
\* Variant of LockBlocks in which the writer does not wait for readers.
LockBlocks_never(l) == FALSE
LockBlocks(l) == l.readerCount # 0 /\ Lock(l).readerWait # 0

\* Unlock: announce that no writer is active; fatal when the mutex was not
\* write-locked; wake the blocked readers; release w.
UnlockFatal(l) ==
    IF l.readerCount + rwmutexMaxReaders >= rwmutexMaxReaders
    THEN "sync: Unlock of unlocked RWMutex"
    ELSE IF ~l.w THEN "sync: unlock of unlocked mutex"
    ELSE ""
Unlock(l) ==
    [l EXCEPT !.readerCount = @ + rwmutexMaxReaders,
              !.readerSem = @ + (l.readerCount + rwmutexMaxReaders),
              !.w = FALSE]

(* ------------------------------ New, Start ----------------------------- *)
\* proxy.go loadGeoDb: open the file at dbPath; a new handle, or an error.
loadGeoDbFails(file) == file \in {"bad", "missing"}
loadGeoDb(hs, file) == Append(hs, [data |-> file, open |-> TRUE])

\* start_proxy.go startProxy, lines 89-142: the flags are checked and turned
\* into options; an error is returned to RunApp, which ends the process.
startProxy ==
    /\ Running /\ mpc = "startProxy"
    /\ IF startProxyOpts(flags).err # ""
       THEN mpc' = "exit" /\ UNCHANGED opts
       ELSE mpc' = "New" /\ opts' = startProxyOpts(flags).opts
    /\ UNCHANGED <<flags, dbLink, filter, action, setup, fileVars, resolve, db, logger, dbLock,
                   handles, startDb, watcher, req, fatal>>

\* proxy.go New, lines 315-334: the options run in order; an error of an
\* option ends New and startProxy.  WithAutoReload is the last option:
\* startWatchingDb (lines 476-482) adds one to setupWG, starts the goroutine
\* that runs setupDbWatcher and waits for setupWG.
New ==
    /\ Running /\ mpc = "New"
    /\ LET p == applyOptions([filter |-> filter, action |-> action, err |-> ""], opts) IN
       IF p.err # ""
       THEN mpc' = "exit" /\ UNCHANGED <<filter, action, setup>>
       ELSE /\ filter' = p.filter
            /\ action' = p.action
            /\ IF watch
               THEN /\ setup' = [setup EXCEPT !.pc = "NewWatcher", !.setupWG = 1]
                    /\ mpc' = "setupWG.Wait"
               ELSE mpc' = "Start" /\ UNCHANGED setup
    /\ UNCHANGED <<flags, opts, dbLink, fileVars, resolve, db, logger, dbLock, handles,
                   startDb, watcher, req, fatal>>

\* setupDbWatcher, lines 417-461: fsnotify.NewWatcher; on an error the
\* function returns without wg.Done.  Otherwise the goroutine that receives
\* the events is started.
setupDbWatcher_NewWatcher ==
    /\ Running /\ setup.pc = "NewWatcher"
    /\ \E ok \in BOOLEAN :
         IF ok
         THEN /\ setup' = [setup EXCEPT !.pc = "Add"]
              /\ watcher' = [watcher EXCEPT !.pc = "select"]
         ELSE /\ setup' = [setup EXCEPT !.pc = "returned"]
              /\ UNCHANGED watcher
    /\ UNCHANGED <<cfgVars, fileVars, resolve, db, logger, dbLock, handles, mpc, startDb, req, fatal>>

\* Variant of setupDbWatcher_Add that ignores the error of watcher.Add.
setupDbWatcher_Add_unchecked ==
    /\ Running /\ setup.pc = "Add"
    /\ \E ok \in BOOLEAN : setup' = [setup EXCEPT !.pc = "Done", !.attached = ok]
    /\ UNCHANGED <<cfgVars, fileVars, resolve, db, logger, dbLock, handles, mpc, startDb, watcher, req, fatal>>

\* setupDbWatcher, lines 463-467: watcher.Add(dir) attaches the watcher to
\* the directory of dbPath; on an error the function returns without
\* wg.Done and its deferred watcher.Close closes the channels.
setupDbWatcher_Add ==
    /\ Running /\ setup.pc = "Add"
    /\ \E ok \in BOOLEAN :
         IF ok
         THEN setup' = [setup EXCEPT !.pc = "Done", !.attached = TRUE]
         ELSE setup' = [setup EXCEPT !.pc = "returned", !.closed = TRUE]
    /\ UNCHANGED <<cfgVars, fileVars, resolve, db, logger, dbLock, handles, mpc, startDb, watcher, req, fatal>>

\* setupDbWatcher, lines 469-470: wg.Done(), then watcherWG.Wait().
setupDbWatcher_Done ==
    /\ Running /\ setup.pc = "Done"
    /\ setup' = [setup EXCEPT !.pc = "watcherWG.Wait", !.setupWG = @ - 1]
    /\ UNCHANGED <<cfgVars, fileVars, resolve, db, logger, dbLock, handles, mpc, startDb, watcher, req, fatal>>

\* startWatchingDb, lines 484-486, and WithAutoReload, lines 240-245:
\* setupWG.Wait() returns when the counter is zero; err is nil, since
\* setupDbWatcher has not returned an error; resolveIpWithLock is installed
\* and New returns the proxy.
startWatchingDb_return ==
    /\ Running /\ mpc = "setupWG.Wait" /\ setup.setupWG = 0
    /\ resolve' = "resolveIpWithLock"
    /\ mpc' = "Start"
    /\ UNCHANGED <<cfgVars, setup, fileVars, db, logger, dbLock, handles, startDb, watcher, req, fatal>>

\* proxy.go Start, line 494: p.logger = logger.
Start_logger ==
    /\ Running /\ mpc = "Start"
    /\ logger' = TRUE
    /\ mpc' = "load"
    /\ UNCHANGED <<cfgVars, setup, fileVars, resolve, db, dbLock, handles, startDb, watcher, req, fatal>>

\* proxy.go Start, lines 496-499: loadGeoDb; an error ends Start.
Start_loadGeoDb ==
    /\ Running /\ mpc = "load"
    /\ IF loadGeoDbFails(dbFile)
       THEN /\ mpc' = "exit"
            /\ UNCHANGED <<handles, startDb>>
       ELSE /\ handles' = loadGeoDb(handles, dbFile)
            /\ startDb' = Len(handles')
            /\ mpc' = "assign"
    /\ UNCHANGED <<cfgVars, setup, fileVars, resolve, db, logger, dbLock, watcher, req, fatal>>

\* Variant of Start_serve that serves before p.db is assigned.
Start_serve_unassigned ==
    /\ Running /\ mpc = "assign"
    /\ mpc' = "serving"
    /\ UNCHANGED <<cfgVars, setup, fileVars, resolve, db, logger, dbLock, handles, startDb, watcher, req, fatal>>

\* proxy.go Start, lines 505-515: p.db = db without the lock, then the
\* handler is registered and the server listens.
Start_serve ==
    /\ Running /\ mpc = "assign"
    /\ db' = startDb
    /\ mpc' = "serving"
    /\ UNCHANGED <<cfgVars, setup, fileVars, resolve, logger, dbLock, handles, startDb, watcher, req, fatal>>

\* proxy.go Start, lines 513-515: http.ListenAndServe returns (it only ever
\* returns an error); no further request is accepted.
Start_ListenAndServe ==
    /\ Running /\ mpc = "serving"
    /\ mpc' = "deferred"
    /\ UNCHANGED <<cfgVars, setup, fileVars, resolve, db, logger, dbLock, handles, startDb, watcher, req, fatal>>

\* proxy.go Start, lines 500-504: the deferred p.db.Close(); p.db is read
\* without the lock.
Start_deferredClose ==
    /\ Running /\ mpc = "deferred"
    /\ IF db = NoHandle
       THEN fatal' = "nil pointer dereference: p.db.Close" /\ UNCHANGED <<handles, mpc>>
       ELSE /\ handles' = [handles EXCEPT ![db].open = FALSE]
            /\ mpc' = "return"
            /\ UNCHANGED fatal
    /\ UNCHANGED <<cfgVars, setup, fileVars, resolve, db, logger, dbLock, startDb, watcher, req>>

\* Start returns its error to startProxy and RunApp, and the process ends.
Start_return ==
    /\ Running /\ mpc = "return"
    /\ mpc' = "exit"
    /\ UNCHANGED <<cfgVars, setup, fileVars, resolve, db, logger, dbLock, handles, startDb, watcher, req, fatal>>

(* --------------------------- the file system --------------------------- *)
\* Paths are sequences of their elements.  dbPath is the --database flag;
\* when it is a symlink it points to realFile in the same directory.
dbPath == <<"db.mmdb">>
realFile == <<"real.mmdb">>
otherFile == <<"other.txt">>

\* filepath.Dir, filepath.Clean, and what fsnotify puts in Event.Name: the
\* watched directory, "/", the name of the entry.
Dir(path) == IF Len(path) = 1 THEN <<".">> ELSE SubSeq(path, 1, Len(path) - 1)
Clean(path) == SelectSeq(path, LAMBDA e : e # ".")
EventName(entry) == Dir(dbPath) \o entry

\* The directory entry that holds the database: dbPath itself, or the
\* target of the symlink.
DbEntry == IF dbLink = "symlink" THEN realFile ELSE dbPath

\* filepath.EvalSymlinks(p.dbPath) with the file in state file: the path
\* with the symlink resolved; an error, and the empty path, when the file
\* does not exist.
EvalSymlinks(file) == IF file = "missing" THEN <<>> ELSE DbEntry

\* The subscription delivers events: the directory is watched, the watcher
\* is open and its goroutine receives.
Delivers == setup.attached /\ ~setup.closed /\ watcher.pc # "stopped"
Notify(name, op) ==
    IF Delivers THEN Append(events, [Name |-> EventName(name), Op |-> op]) ELSE events

\* The database file is written with another version: a Write event for
\* its directory entry, a Create event when the file did not exist.
WriteDbFile(v) ==
    /\ Running /\ nEvents < MaxEvents /\ v # dbFile
    /\ dbFile' = v
    /\ nEvents' = nEvents + 1
    /\ events' = Notify(DbEntry, IF dbFile = "missing" THEN {"Create"} ELSE {"Write"})
    /\ UNCHANGED <<cfgVars, setup, pageFile, resolve, db, logger, dbLock, handles, mpc, startDb, watcher, req, fatal>>

\* The database file is removed or moved away.
RemoveDbFile(op) ==
    /\ Running /\ nEvents < MaxEvents /\ dbFile # "missing"
    /\ dbFile' = "missing"
    /\ nEvents' = nEvents + 1
    /\ events' = Notify(DbEntry, {op})
    /\ UNCHANGED <<cfgVars, setup, pageFile, resolve, db, logger, dbLock, handles, mpc, startDb, watcher, req, fatal>>

\* The mode of the database file changes, or another file of the directory
\* is written.
TouchFile(name, op) ==
    /\ Running /\ nEvents < MaxEvents /\ dbFile # "missing"
    /\ nEvents' = nEvents + 1
    /\ events' = Notify(name, {op})
    /\ UNCHANGED <<cfgVars, setup, dbFile, pageFile, resolve, db, logger, dbLock, handles, mpc, startDb, watcher, req, fatal>>

\* The symlink at dbPath is replaced by one that points to a file with
\* version v: a Create event for dbPath.
ReplaceDbLink(v) ==
    /\ Running /\ nEvents < MaxEvents /\ dbLink = "symlink" /\ v # dbFile
    /\ dbFile' = v
    /\ nEvents' = nEvents + 1
    /\ events' = Notify(dbPath, {"Create"})
    /\ UNCHANGED <<cfgVars, setup, pageFile, resolve, db, logger, dbLock, handles, mpc, startDb, watcher, req, fatal>>

\* The file served by WithFile is rewritten.
WritePageFile ==
    /\ Running /\ action.kind = "file" /\ pageFile = "page1"
    /\ pageFile' = "page2"
    /\ UNCHANGED <<cfgVars, setup, dbFile, events, nEvents, resolve, db, logger, dbLock, handles, mpc, startDb, watcher, req, fatal>>

(* ------------------------- the watcher goroutine ----------------------- *)
writeOrCreateMask == {"Write", "Create"}

\* proxy.go setupDbWatcher, lines 438-440: the cleaned name of the event is
\* the resolved database path and its operation includes Write or Create.
matches(event) ==
    /\ Clean(event.Name) = EvalSymlinks(dbFile)
    /\ event.Op \cap writeOrCreateMask # {}

\* setupDbWatcher, lines 431-441: receive an event; a matching one starts
\* reloadGeoDb.
watcher_event ==
    /\ Running /\ watcher.pc = "select" /\ events # <<>>
    /\ events' = Tail(events)
    /\ watcher' = [watcher EXCEPT !.pc = IF matches(Head(events)) THEN "load" ELSE "select"]
    /\ UNCHANGED <<cfgVars, setup, dbFile, pageFile, nEvents, resolve, db, logger, dbLock, handles, mpc, startDb, req, fatal>>

\* setupDbWatcher, lines 431-436 and 451-458: after watcher.Close both
\* channels are closed and the select takes either: the Events case logs
\* with p.logger, the Errors case returns.
watcher_closed ==
    /\ Running /\ watcher.pc = "select" /\ setup.closed
    /\ \/ IF ~logger
          THEN fatal' = "nil pointer dereference: p.logger" /\ UNCHANGED watcher
          ELSE watcher' = [watcher EXCEPT !.pc = "stopped"] /\ UNCHANGED fatal
       \/ watcher' = [watcher EXCEPT !.pc = "stopped"] /\ UNCHANGED fatal
    /\ UNCHANGED <<cfgVars, setup, fileVars, resolve, db, logger, dbLock, handles, mpc, startDb, req>>

\* setupDbWatcher, lines 451-458: the subscription reports an error on
\* watcher.Errors; it is logged with p.logger, watcherWG.Done() is called
\* and the goroutine returns.
watcher_error ==
    /\ Running /\ watcher.pc = "select" /\ setup.attached /\ ~setup.closed
    /\ IF ~logger
       THEN fatal' = "nil pointer dereference: p.logger" /\ UNCHANGED watcher
       ELSE watcher' = [watcher EXCEPT !.pc = "stopped"] /\ UNCHANGED fatal
    /\ UNCHANGED <<cfgVars, setup, fileVars, resolve, db, logger, dbLock, handles, mpc, startDb, req>>

\* setupDbWatcher, lines 470-472: watcherWG.Wait() returns when the
\* goroutine has stopped; the function returns nil and its deferred
\* watcher.Close() runs.
setupDbWatcher_return ==
    /\ Running /\ setup.pc = "watcherWG.Wait" /\ watcher.pc = "stopped"
    /\ setup' = [setup EXCEPT !.pc = "returned", !.closed = TRUE]
    /\ UNCHANGED <<cfgVars, fileVars, resolve, db, logger, dbLock, handles, mpc, startDb, watcher, req, fatal>>

\* Variant of reloadGeoDb_load that goes on to the swap when opening failed.
reloadGeoDb_load_unchecked ==
    /\ Running /\ watcher.pc = "load"
    /\ IF loadGeoDbFails(dbFile)
       THEN /\ watcher' = [watcher EXCEPT !.pc = "lock", !.err = TRUE]
            /\ UNCHANGED handles
       ELSE /\ handles' = loadGeoDb(handles, dbFile)
            /\ watcher' = [watcher EXCEPT !.pc = "lock", !.newDb = Len(handles')]
    /\ UNCHANGED <<cfgVars, setup, fileVars, resolve, db, logger, dbLock, mpc, startDb, req, fatal>>

\* reloadGeoDb, lines 352-355: open the new handle; on error return it.
reloadGeoDb_load ==
    /\ Running /\ watcher.pc = "load"
    /\ IF loadGeoDbFails(dbFile)
       THEN /\ watcher' = [watcher EXCEPT !.pc = "log", !.err = TRUE]
            /\ UNCHANGED handles
       ELSE /\ handles' = loadGeoDb(handles, dbFile)
            /\ watcher' = [watcher EXCEPT !.pc = "lock", !.newDb = Len(handles')]
    /\ UNCHANGED <<cfgVars, setup, fileVars, resolve, db, logger, dbLock, mpc, startDb, req, fatal>>

\* reloadGeoDb, line 359: p.dbLock.Lock().  With readers counted the writer
\* sleeps on writerSem, which only RUnlock releases; no code calls RUnlock.
reloadGeoDb_Lock ==
    /\ Running /\ watcher.pc = "lock" /\ ~dbLock.w
    /\ dbLock' = Lock(dbLock)
    /\ watcher' = [watcher EXCEPT !.pc = IF LockBlocks(dbLock) THEN "lock_wait" ELSE "locked"]
    /\ UNCHANGED <<cfgVars, setup, fileVars, resolve, db, logger, handles, mpc, startDb, req, fatal>>

\* reloadGeoDb, line 360: oldDb = p.db.
reloadGeoDb_old ==
    /\ Running /\ watcher.pc = "locked"
    /\ watcher' = [watcher EXCEPT !.pc = "swap", !.oldDb = db]
    /\ UNCHANGED <<cfgVars, setup, fileVars, resolve, db, logger, dbLock, handles, mpc, startDb, req, fatal>>

\* Variant of reloadGeoDb_swap that closes the old handle under the lock.
reloadGeoDb_swap_closing ==
    /\ Running /\ watcher.pc = "swap"
    /\ db' = watcher.newDb
    /\ handles' = IF watcher.oldDb = NoHandle THEN handles
                  ELSE [handles EXCEPT ![watcher.oldDb].open = FALSE]
    /\ watcher' = [watcher EXCEPT !.pc = "unlock"]
    /\ UNCHANGED <<cfgVars, setup, fileVars, resolve, logger, dbLock, mpc, startDb, req, fatal>>

\* reloadGeoDb, line 361: p.db = newDb.
reloadGeoDb_swap ==
    /\ Running /\ watcher.pc = "swap"
    /\ db' = watcher.newDb
    /\ watcher' = [watcher EXCEPT !.pc = "unlock"]
    /\ UNCHANGED <<cfgVars, setup, fileVars, resolve, logger, dbLock, handles, mpc, startDb, req, fatal>>

\* reloadGeoDb, line 362: p.dbLock.Unlock().
reloadGeoDb_Unlock ==
    /\ Running /\ watcher.pc = "unlock"
    /\ IF UnlockFatal(dbLock) # ""
       THEN /\ fatal' = UnlockFatal(dbLock)
            /\ UNCHANGED <<dbLock, watcher>>
       ELSE /\ dbLock' = Unlock(dbLock)
            /\ watcher' = [watcher EXCEPT !.pc = "close"]
            /\ UNCHANGED fatal
    /\ UNCHANGED <<cfgVars, setup, fileVars, resolve, db, logger, handles, mpc, startDb, req>>

\* reloadGeoDb, line 364: return oldDb.Close().  Close on a nil reader
\* dereferences nil in the watcher goroutine; Close may report an error.
reloadGeoDb_Close ==
    /\ Running /\ watcher.pc = "close"
    /\ IF watcher.oldDb = NoHandle
       THEN /\ fatal' = "nil pointer dereference: oldDb.Close"
            /\ UNCHANGED <<handles, watcher>>
       ELSE /\ handles' = [handles EXCEPT ![watcher.oldDb].open = FALSE]
            /\ \E e \in BOOLEAN : watcher' = [watcher EXCEPT !.pc = "log", !.err = e]
            /\ UNCHANGED fatal
    /\ UNCHANGED <<cfgVars, setup, fileVars, resolve, db, logger, dbLock, mpc, startDb, req>>

\* setupDbWatcher, lines 442-448: what the watcher logs for the error
\* reloadGeoDb returned.
logEntry(err) ==
    IF err THEN [level |-> "error", msg |-> "failed to reload Geo DB"]
    ELSE [level |-> "info", msg |-> "Geo DB is reloaded"]

\* setupDbWatcher, lines 442-448: log the result with p.logger, which is nil
\* until Start has set it, and go back to the select.
watcher_log ==
    /\ Running /\ watcher.pc = "log"
    /\ IF ~logger
       THEN /\ fatal' = "nil pointer dereference: p.logger"
            /\ UNCHANGED watcher
       ELSE /\ watcher' = [IdleWatcher EXCEPT !.pc = "select"]
            /\ UNCHANGED fatal
    /\ UNCHANGED <<cfgVars, setup, fileVars, resolve, db, logger, dbLock, handles, mpc, startDb, req>>

(* ------------------------- the request handler ------------------------- *)
Outcome(kind, res, geo, page) ==
    [kind |-> kind, res |-> res, geo |-> geo, page |-> page]

\* Variant of afterResolve that forwards without setting the geo header.
afterResolve_noHeader(country, page) ==
    IF country.panic THEN Outcome("panic", Response(0, <<>>, ""), "", page)
    ELSE IF country.err THEN Outcome("action", actionFunc(action, page), "", page)
    ELSE IF ~filterFunc(filter, country.IsoCode)
    THEN Outcome("action", actionFunc(action, page), "", page)
    ELSE Outcome("forward", Response(0, <<>>, ""), "", page)

\* getHandler, lines 392-412: what the handler does with the result of
\* p.resolve: the action on an error or a rejected code, otherwise the geo
\* header is set and the request is forwarded.
afterResolve(country, page) ==
    IF country.panic THEN Outcome("panic", Response(0, <<>>, ""), "", page)
    ELSE IF country.err THEN Outcome("action", actionFunc(action, page), "", page)
    ELSE IF ~filterFunc(filter, country.IsoCode)
    THEN Outcome("action", actionFunc(action, page), "", page)
    ELSE Outcome("forward", Response(0, <<>>, ""), country.IsoCode, page)

\* Variant of setGeoHeader that adds the value behind one the client sent,
\* so that the client's value stays the first one.
setGeoHeader_add(h, code) ==
    IF geoHeaderName \in DOMAIN h THEN h ELSE HeaderSet(h, geoHeaderName, code)

\* getHandler, line 410: req.Header.Set(geoHeaderName, IsoCode).
setGeoHeader(h, code) == HeaderSet(h, geoHeaderName, code)

\* getHandler, lines 410-412: the request an admitted request is forwarded
\* as; nothing is forwarded on the other paths.
forwarded(in, country, page) ==
    IF afterResolve(country, page).kind = "forward"
    THEN serveReverseProxy(targetUrl,
             [Request(in) EXCEPT !.Header = setGeoHeader(@, country.IsoCode)])
    ELSE NoForward

\* Variant of terminalCalls whose error branch does not return.
terminalCalls_noReturn(country) ==
    IF country.panic THEN <<>>
    ELSE IF country.err
    THEN <<"action">> \o (IF ~filterFunc(filter, country.IsoCode) THEN <<"action">> ELSE <<"forward">>)
    ELSE IF ~filterFunc(filter, country.IsoCode) THEN <<"action">>
    ELSE <<"forward">>

\* getHandler, lines 391-412: the calls that write the response, in the
\* order the handler makes them: p.action behind each of the two checks,
\* each followed by return, and serveReverseProxy at the end.
terminalCalls(country) ==
    IF country.panic THEN <<>>
    ELSE IF country.err THEN <<"action">>
    ELSE IF ~filterFunc(filter, country.IsoCode) THEN <<"action">>
    ELSE <<"forward">>

\* p.db.Country(ip) on handle h: a nil reader is dereferenced (the panic is
\* recovered by net/http, which drops the connection); a closed reader
\* reports an error.
CountryOf(h, ip) ==
    IF h = NoHandle THEN [err |-> TRUE, IsoCode |-> "", panic |-> TRUE]
    ELSE IF handles[h].open THEN Country(handles[h].data, ip)
    ELSE [err |-> TRUE, IsoCode |-> "", panic |-> FALSE]

\* getHandler, lines 380-389: the address is taken and parsed; 400 when it is
\* no IP.
getHandler(r, in) ==
    /\ Running /\ mpc = "serving" /\ req[r].pc = "idle"
    /\ LET addr == getRemoteAddr(in)
           ip == getIP(addr)
       IN  IF ip = ""
           THEN req' = [req EXCEPT ![r].pc = "done", ![r].in = in, ![r].addr = addr,
                          ![r].calls = <<"bad_request">>,
                          ![r].out = Outcome("bad_request", Response(StatusBadRequest, <<>>, ""), "", pageFile)]
           ELSE req' = [req EXCEPT ![r].pc = "resolve", ![r].in = in, ![r].addr = addr,
                          ![r].ip = ip]
    /\ UNCHANGED <<cfgVars, setup, fileVars, resolve, db, logger, dbLock, handles, mpc, startDb, watcher, fatal>>

\* resolveIp called directly (no auto-reload), then the rest of the handler.
resolveIp(r) ==
    /\ Running /\ req[r].pc = "resolve" /\ resolve = "resolveIp"
    /\ LET c == CountryOf(db, req[r].ip) IN
       req' = [req EXCEPT ![r].pc = "done", ![r].h = db, ![r].country = c,
                          ![r].calls = terminalCalls(c),
                          ![r].out = afterResolve(c, pageFile),
                          ![r].fwd = forwarded(req[r].in, c, pageFile)]
    /\ UNCHANGED <<cfgVars, setup, fileVars, resolve, db, logger, dbLock, handles, mpc, startDb, watcher, fatal>>

\* resolveIpWithLock, line 372: p.dbLock.RLock().
resolveIpWithLock_RLock(r) ==
    /\ Running /\ req[r].pc = "resolve" /\ resolve = "resolveIpWithLock"
    /\ dbLock' = RLock(dbLock)
    /\ req' = [req EXCEPT ![r].pc = IF RLockBlocks(dbLock) THEN "rlock_wait" ELSE "rlocked"]
    /\ UNCHANGED <<cfgVars, setup, fileVars, resolve, db, logger, handles, mpc, startDb, watcher, fatal>>

\* RLock: a reader blocked on readerSem is woken by a writer's Unlock.
resolveIpWithLock_wake(r) ==
    /\ Running /\ req[r].pc = "rlock_wait" /\ dbLock.readerSem > 0
    /\ dbLock' = [dbLock EXCEPT !.readerSem = @ - 1]
    /\ req' = [req EXCEPT ![r].pc = "rlocked"]
    /\ UNCHANGED <<cfgVars, setup, fileVars, resolve, db, logger, handles, mpc, startDb, watcher, fatal>>

\* resolveIp, line 368: p.db is read.
resolveIpWithLock_db(r) ==
    /\ Running /\ req[r].pc = "rlocked"
    /\ req' = [req EXCEPT ![r].pc = "country", ![r].h = db]
    /\ UNCHANGED <<cfgVars, setup, fileVars, resolve, db, logger, dbLock, handles, mpc, startDb, watcher, fatal>>

\* resolveIp, line 368: Country runs on the handle that was read.
resolveIpWithLock_Country(r) ==
    /\ Running /\ req[r].pc = "country"
    /\ req' = [req EXCEPT ![r].pc = "return", ![r].country = CountryOf(req[r].h, req[r].ip)]
    /\ UNCHANGED <<cfgVars, setup, fileVars, resolve, db, logger, dbLock, handles, mpc, startDb, watcher, fatal>>

\* resolveIpWithLock, line 373: the deferred p.dbLock.Unlock() runs as the
\* function returns; then the rest of the handler.
resolveIpWithLock_return(r) ==
    /\ Running /\ req[r].pc = "return"
    /\ IF UnlockFatal(dbLock) # ""
       THEN /\ fatal' = UnlockFatal(dbLock)
            /\ UNCHANGED <<dbLock, req>>
       ELSE /\ dbLock' = Unlock(dbLock)
            /\ req' = [req EXCEPT ![r].pc = "done",
                                  ![r].calls = terminalCalls(req[r].country),
                                  ![r].out = afterResolve(req[r].country, pageFile),
                                  ![r].fwd = forwarded(req[r].in, req[r].country, pageFile)]
            /\ UNCHANGED fatal
    /\ UNCHANGED <<cfgVars, setup, fileVars, resolve, db, logger, handles, mpc, startDb, watcher>>

(* --------------------------- specification ----------------------------- *)
\* The steps of the process with requests R carrying inbound data from In
\* and the database file written with the versions of Files.
Step(R, In, Files) ==
    \/ startProxy
    \/ New
    \/ setupDbWatcher_NewWatcher
    \/ setupDbWatcher_Add
    \/ setupDbWatcher_Done
    \/ startWatchingDb_return
    \/ Start_logger
    \/ Start_loadGeoDb
    \/ Start_serve
    \/ \E v \in Files : WriteDbFile(v)
    \/ watcher_event
    \/ watcher_closed
    \/ reloadGeoDb_load
    \/ reloadGeoDb_Lock
    \/ reloadGeoDb_old
    \/ reloadGeoDb_swap
    \/ reloadGeoDb_Unlock
    \/ reloadGeoDb_Close
    \/ watcher_log
    \/ \E r \in R, in \in In : getHandler(r, in)
    \/ \E r \in R : resolveIp(r)
    \/ \E r \in R : resolveIpWithLock_RLock(r)
    \/ \E r \in R : resolveIpWithLock_wake(r)
    \/ \E r \in R : resolveIpWithLock_db(r)
    \/ \E r \in R : resolveIpWithLock_Country(r)
    \/ \E r \in R : resolveIpWithLock_return(r)

\* Requests of the concurrency runs: an address whose country only the
\* second version of the database knows.
FewInbound ==
    { [xff |-> <<"2.2.2.2">>, realIp |-> Empty, remoteAddr |-> <<"1.1.1.1", ":", "80">>,
       host |-> inboundHost, geo |-> ""] }

\* The command lines of the concurrency runs: an allow list, the default
\* action, with and without --watch.
FewFlags == {[NoFlags EXCEPT !.allowed = "DE", !.watch = w] : w \in BOOLEAN}

Next == Step(Reqs, FewInbound, FileStates)

InitFew == Init /\ flags \in FewFlags /\ dbLink = "file"

Spec == InitFew /\ [][Next]_vars

\* The command lines that configure every policy and every action: at most
\* one list and at most one action flag.
PipelineFlags ==
    { f \in Flags :
        /\ f.allowed \in {"", "US", "US,DE"}
        /\ f.blocked \in {"", "US", "US,DE"}
        /\ f.allowed = "" \/ f.blocked = ""
        /\ f.message # " "
        /\ Cardinality({x \in {f.message, f.redirect, f.file} : x # ""}) <= 1 }

InitPipeline == Init /\ flags \in PipelineFlags /\ dbLink = "file"

\* Every configuration and every inbound request, one request at a time; the
\* file of the file action is rewritten (only that action reads it).
NextPipeline == Step({1}, Inbound, DbVersions) \/ WritePageFile

PipelineSpec == InitPipeline /\ [][NextPipeline]_vars

\* Construction: every command line and every direct call of New, up to the
\* moment the server listens.
NextConfig ==
    \/ startProxy
    \/ New
    \/ setupDbWatcher_NewWatcher
    \/ setupDbWatcher_Add
    \/ setupDbWatcher_Done
    \/ startWatchingDb_return
    \/ watcher_closed
    \/ Start_logger
    \/ Start_loadGeoDb
    \/ Start_serve

InitConfig == Init /\ dbLink = "file"

ConfigSpec == InitConfig /\ [][NextConfig]_vars

\* The watcher with every kind of event, the database a file or a symlink.
NextWatch ==
    \/ Step({1}, FewInbound, FileStates)
    \/ watcher_error
    \/ setupDbWatcher_return
    \/ \E op \in {"Remove", "Rename"} : RemoveDbFile(op)
    \/ TouchFile(DbEntry, "Chmod")
    \/ TouchFile(otherFile, "Write")
    \/ \E v \in DbVersions : ReplaceDbLink(v)

InitWatch == Init /\ flags \in FewFlags

WatchSpec == InitWatch /\ [][NextWatch]_vars

\* The server shuts down while the watcher runs.
NextShutdown ==
    \/ Step({1}, FewInbound, DbVersions)
    \/ Start_ListenAndServe
    \/ Start_deferredClose
    \/ Start_return

InitShutdown == Init /\ flags \in FewFlags /\ dbLink = "file"

ShutdownSpec == InitShutdown /\ [][NextShutdown]_vars

\* Requests that carry an X-Geo-Country header of their own, served without
\* auto-reload.
GeoInbound ==
    [xff : {Empty, <<"2.2.2.2">>},
     realIp : {Empty},
     remoteAddr : {<<"1.1.1.1", ":", "80">>},
     host : {inboundHost},
     geo : ClientGeo]

HeaderFlags == {[NoFlags EXCEPT !.allowed = "US,DE"], [NoFlags EXCEPT !.blocked = "DE"]}

NextHeader ==
    \/ startProxy
    \/ New
    \/ Start_logger
    \/ Start_loadGeoDb
    \/ Start_serve
    \/ \E v \in DbVersions : WriteDbFile(v)
    \/ \E r \in Reqs, in \in GeoInbound : getHandler(r, in)
    \/ \E r \in Reqs : resolveIp(r)

InitHeader == Init /\ flags \in HeaderFlags /\ dbLink = "file"

HeaderSpec == InitHeader /\ [][NextHeader]_vars

\* The goroutines are scheduled fairly: a step that stays possible is taken.
MainStep ==
    \/ startProxy \/ New \/ startWatchingDb_return
    \/ Start_logger \/ Start_loadGeoDb \/ Start_serve
SetupStep == setupDbWatcher_NewWatcher \/ setupDbWatcher_Add \/ setupDbWatcher_Done
WatcherStep ==
    \/ watcher_closed \/ watcher_event \/ reloadGeoDb_load \/ reloadGeoDb_Lock \/ reloadGeoDb_old
    \/ reloadGeoDb_swap \/ reloadGeoDb_Unlock \/ reloadGeoDb_Close \/ watcher_log
HandlerStep(r) ==
    \/ resolveIp(r) \/ resolveIpWithLock_RLock(r) \/ resolveIpWithLock_wake(r)
    \/ resolveIpWithLock_db(r) \/ resolveIpWithLock_Country(r)
    \/ resolveIpWithLock_return(r)

FairSpec ==
    /\ Spec
    /\ WF_vars(MainStep)
    /\ WF_vars(SetupStep)
    /\ WF_vars(WatcherStep)
    /\ \A r \in Reqs : WF_vars(HandlerStep(r))

(* ------------------------------ properties ----------------------------- *)
\* The address the handler was given parses as an IP.
Parsed(r) == req[r].pc # "idle" /\ req[r].ip # ""
\* The lookup of request r returned a country code.
Resolved(r) ==
    Parsed(r) /\ ~req[r].country.err /\ req[r].country.IsoCode \in Countries
\* The configured policy admits code c.
Admits(c) ==
    \/ filter.kind = "none"
    \/ filter.kind = "allow" /\ c \in filter.countries
    \/ filter.kind = "block" /\ c \notin filter.countries
Done(r) == req[r].pc = "done"

\* C1: a request with a parsed address, a resolved country code and a code
\* the policy admits is forwarded with X-Geo-Country equal to that code; the
\* action is not executed and no 400 is written.
C1_AdmittedIsForwarded ==
    \A r \in Reqs :
        (Done(r) /\ Resolved(r) /\ Admits(req[r].country.IsoCode))
        => /\ req[r].out.kind = "forward"
           /\ req[r].out.geo = req[r].country.IsoCode
           /\ req[r].out.res.status # StatusBadRequest

C1_Witness ==
    \E r \in Reqs :
        /\ Done(r) /\ Resolved(r) /\ filter.kind = "allow"
        /\ req[r].country.IsoCode = "DE"
        /\ req[r].out.kind = "forward" /\ req[r].out.geo = "DE"

\* C2: a request whose resolved country the policy rejects is not forwarded
\* and gets exactly the response of the configured action: 403 with an empty
\* body, 200 with the text inside the HTML wrapper, 307 with Location set to
\* the configured URL, or the current content of the file.
C2_RejectedGetsAction ==
    \A r \in Reqs :
        (Done(r) /\ Resolved(r) /\ ~Admits(req[r].country.IsoCode))
        => /\ req[r].out.kind = "action"
           /\ req[r].out.geo = ""
           /\ action.kind = "default" =>
                req[r].out.res = Response(StatusForbidden, <<>>, "")
           /\ action.kind = "message" =>
                req[r].out.res = Response(StatusOK, <<tmplHead, message, tmplTail>>, "")
           /\ action.kind = "redirect" =>
                /\ req[r].out.res.status = StatusTemporaryRedirect
                /\ req[r].out.res.location = redirectUrl
           /\ action.kind = "file" =>
                req[r].out.res = Response(StatusOK, <<req[r].out.page>>, "")

C2_Witness ==
    \E r \in Reqs :
        /\ Done(r) /\ Resolved(r) /\ ~Admits(req[r].country.IsoCode)
        /\ action.kind = "file" /\ req[r].out.page = "page2"
        /\ req[r].out.res.body = <<"page2">>

\* C3: a request whose address parses but has no entry in the database gets
\* the response of the configured action and is never forwarded.
C3_NoEntryGetsAction ==
    \A r \in Reqs :
        (Done(r) /\ Parsed(r) /\ ~req[r].country.err /\ req[r].country.IsoCode = "")
        => /\ req[r].out.kind = "action"
           /\ req[r].out.res = actionFunc(action, req[r].out.page)

\* The first non-empty address source of an inbound request.
FirstSource(in) ==
    IF in.xff # Empty THEN in.xff ELSE IF in.realIp # Empty THEN in.realIp ELSE in.remoteAddr
\* s is an IP, or host:port with an IP host.
IsAddress(s) ==
    \/ Len(s) = 1 /\ s[1] \in IPs
    \/ Len(s) = 3 /\ s[2] = ":" /\ s[1] \in IPs

\* C4: when the first non-empty address source is neither an IP nor host:port
\* with an IP host, the handler writes 400 and stops: no lookup, no action,
\* no forwarding, whatever the policy, the action and the other sources.
C4_UnparsableIs400 ==
    \A r \in Reqs :
        (req[r].pc # "idle" /\ ~IsAddress(FirstSource(req[r].in)))
        => /\ Done(r)
           /\ req[r].out.kind = "bad_request"
           /\ req[r].out.res = Response(StatusBadRequest, <<>>, "")
           /\ req[r].h = NoHandle /\ req[r].country = NoCountry

C4_Witness ==
    \E r \in Reqs :
        /\ Done(r) /\ req[r].out.kind = "bad_request"
        /\ req[r].in.xff = <<"example.com">> /\ req[r].in.realIp = <<"2.2.2.2">>
        /\ action.kind = "redirect" /\ filter.kind = "block"

\* Requests between RLock and the return of resolveIpWithLock.
InLookup == {r \in Reqs : req[r].pc \in {"rlock_wait", "rlocked", "country", "return"}}
\* The watcher is between Lock and Unlock.
InSwap == watcher.pc \in {"lock_wait", "locked", "swap", "unlock"}

\* C5: a lookup releases the shared lock it acquired before it returns, so
\* once all lookups have returned (and no swap is under way) the lock is
\* free; releasing never ends the process.
C5_LookupReleasesSharedLock ==
    /\ fatal # "sync: Unlock of unlocked RWMutex"
    /\ (InLookup = {} /\ ~InSwap) => (dbLock.readerCount = 0 /\ ~dbLock.w)

\* C6: a lookup never reads a nil handle reference: the handle it runs on is
\* a completely opened reader.
C6_LookupSeesHandle ==
    \A r \in Reqs :
        (req[r].pc \in {"country", "return"} \/ (Done(r) /\ Parsed(r)))
        => req[r].h \in 1..Len(handles)

C6_Witness ==
    \E r \in Reqs :
        /\ req[r].pc = "country" /\ req[r].h = db /\ req[r].h # startDb
        /\ watcher.pc = "log"

\* C7: once the new file has been opened for a reload while the proxy is
\* serving, the swap eventually completes; a lookup answered from a reloaded
\* handle with a code the policy admits ends with the request forwarded.
C7_SwapCompletes ==
    /\ (mpc = "serving" /\ watcher.pc = "lock") ~> (watcher.pc = "close")
    /\ \A r \in Reqs :
          (req[r].pc = "return" /\ req[r].h # startDb /\ Resolved(r)
             /\ Admits(req[r].country.IsoCode))
          ~> (req[r].out.kind = "forward")

\* C8: a handle is closed only after it has been replaced as the current
\* handle, and no lookup runs against a closed handle.
C8_NoLookupOnClosedHandle ==
    /\ \A h \in 1..Len(handles) : ~handles[h].open => db # h
    /\ \A r \in Reqs : req[r].pc = "country" => handles[req[r].h].open

C8_Witness ==
    \E r \in Reqs :
        /\ req[r].pc = "country" /\ req[r].h = db
        /\ \E h \in 1..Len(handles) : ~handles[h].open

\* C9: a reload whose file cannot be opened changes neither the current
\* handle nor any handle's state and never takes the lock; the watcher only
\* locks, swaps and closes with a handle it has opened.
C9_FailedReloadKeepsHandle ==
    /\ [](watcher.pc \in {"lock", "lock_wait", "locked", "swap", "unlock", "close"}
            => watcher.newDb \in 1..Len(handles))
    /\ [][(watcher.pc = "load" /\ loadGeoDbFails(dbFile) /\ watcher' # watcher)
            => (watcher'.pc = "log" /\ db' = db /\ handles' = handles /\ dbLock' = dbLock)]_vars

C9_Witness ==
    /\ watcher.pc = "log" /\ watcher.err /\ watcher.newDb = NoHandle
    /\ db # NoHandle /\ db = startDb /\ handles[db].open
    /\ \E r \in Reqs : req[r].pc = "country" /\ req[r].h = db

\* The watcher holds the exclusive lock.
HoldsExclusive == watcher.pc \in {"locked", "swap", "unlock"}

\* C10: the new handle is open before the exclusive lock is taken and the old
\* one is still open when it is released; while the lock is held the watcher
\* opens and closes nothing; the mutex is not write-locked while the watcher
\* opens or closes a database.
C10_SwapOnlyReplacesReference ==
    /\ [](HoldsExclusive =>
            /\ watcher.newDb \in 1..Len(handles) /\ handles[watcher.newDb].open
            /\ watcher.oldDb # NoHandle => handles[watcher.oldDb].open)
    /\ [](watcher.pc \in {"load", "close"} => dbLock.readerCount >= 0)
    /\ [][(HoldsExclusive /\ watcher' # watcher) => handles' = handles]_vars

C10_Witness ==
    /\ watcher.pc = "swap" /\ mpc = "serving" /\ watcher.oldDb = startDb
    /\ \E r \in Reqs : req[r].pc = "rlock_wait"

\* The responses a handler can end with.
TerminalKinds == {"bad_request", "action", "forward"}

\* C11: every request ends with the 400 response, the configured action or
\* the relay to the upstream, and no step of a handler ends the process.
C11_RequestEndsWithResponse ==
    /\ [](\A r \in Reqs : Done(r) => req[r].out.kind \in TerminalKinds)
    /\ [][\A r \in Reqs : HandlerStep(r) => fatal' = ""]_vars

\* New has returned the proxy to startProxy.
Constructed == mpc \in {"Start", "load", "assign", "serving"}

\* C12: with auto-reload, New has returned (and the locking lookup is
\* installed) only when watcher.Add has attached the watcher to the
\* directory of the database path.
C12_SuccessAfterAttached ==
    ((watch /\ Constructed) \/ resolve = "resolveIpWithLock")
    => setup.attached

C12_Witness ==
    /\ watch /\ mpc = "Start" /\ resolve = "resolveIpWithLock"
    /\ setup.attached /\ watcher.pc = "select"

\* The action flags given on the command line.
ActionFlags == {x \in {"message", "redirect", "file"} : TrimSpace(flags[x]) # ""}

\* C13: with more than one of --message, --redirect and --file no proxy is
\* built or started; a proxy that was built has one action, the default one
\* when no action flag was given.
C13_OneActionSupplied ==
    /\ Cardinality(ActionFlags) > 1 => mpc \in {"startProxy", "exit"} /\ ~logger
    /\ Constructed =>
          /\ action \in Actions
          /\ ActionFlags = {} => action = defaultAction

\* The process was started from the command line, not by a program that
\* calls New with its own options.
FromCommandLine == opts = <<>> \/ flags # NoFlags \/ opts[1].name = "WithNoFilter"

\* The lists given on the command line.
ListFlags == {x \in {"allowed", "blocked"} : TrimSpace(flags[x]) # ""}

\* C14: with both --allow and --block no proxy is built or started; a proxy
\* that was built has one policy: the allow list, the block list or no
\* filter, according to the list that was given.
C14_OnePolicySupplied ==
    /\ Cardinality(ListFlags) > 1 => mpc \in {"startProxy", "exit"} /\ ~logger
    /\ Constructed => filter.kind \in {"allow", "block", "none"}
    /\ (Constructed /\ FromCommandLine) =>
          /\ filter \in Filters
          /\ ListFlags = {"allowed"} => filter.kind = "allow"
          /\ ListFlags = {"blocked"} => filter.kind = "block"
          /\ ListFlags = {} => filter.kind = "none"

C14_Witness ==
    /\ flags.allowed = "US" /\ flags.blocked = "DE" /\ mpc = "exit"
    /\ opts = <<>> /\ filter = NilFilter

\* The country codes a list flag names: those of its fields that are a
\* country.
RecognisedCodes(s) == {ByName(c) : c \in Range(Split(TrimSpace(s)))} \cap Countries

\* C15: a list flag none of whose fields is a country, and a country option
\* called with an empty list, end construction with an error; no proxy is
\* built with an empty allow or block set.
C15_NoEmptyCountrySet ==
    /\ (FromCommandLine /\ \E x \in ListFlags : RecognisedCodes(flags[x]) = {})
          => mpc \in {"startProxy", "exit"} /\ ~logger
    /\ (~FromCommandLine /\ opts[1].arg = <<>>) => mpc \in {"New", "exit"} /\ ~logger
    /\ (Constructed /\ filter.kind \in {"allow", "block"}) => filter.countries # {}

C15_Witness ==
    /\ ~FromCommandLine /\ opts = <<Opt("WithBlockedCountries", <<>>)>>
    /\ mpc = "exit" /\ filter = NilFilter /\ ~logger

\* The lookup of request r returned a record, with a code or without one.
LookedUp(r) == Parsed(r) /\ ~req[r].country.err /\ ~req[r].country.panic

\* C16: the policy lets a code pass exactly when it is one of the codes of
\* the allow list, when it is none of the codes of the block list, and
\* always without a list; codes are compared as strings.
C16_PolicyDecision ==
    \A r \in Reqs :
        (Done(r) /\ LookedUp(r) /\ FromCommandLine) =>
            LET c == req[r].country.IsoCode
                passed == req[r].calls = <<"forward">>
            IN  /\ ListFlags = {"allowed"} => (passed <=> c \in RecognisedCodes(flags.allowed))
                /\ ListFlags = {"blocked"} => (passed <=> c \notin RecognisedCodes(flags.blocked))
                /\ ListFlags = {} => passed

C16_Witness ==
    \E r \in Reqs :
        /\ Done(r) /\ LookedUp(r) /\ flags.blocked = "US,DE"
        /\ req[r].country.IsoCode = "US" /\ req[r].calls = <<"action">>
        /\ filter = WithBlockedCountries({"US", "DE"})

\* C17: the filter is called with a country code only: a request whose
\* lookup gave no code is answered by the action, and a forwarded request
\* carries a country code in X-Geo-Country.
C17_FilterSeesResolvedCode ==
    \A r \in Reqs :
        /\ (Done(r) /\ req[r].calls = <<"forward">>) =>
              (Resolved(r) /\ req[r].out.geo \in Countries)
        /\ (Done(r) /\ LookedUp(r) /\ ~Resolved(r)) => req[r].calls = <<"action">>

\* C18: a request that has ended made one terminal call, the 400 response,
\* the action or the forwarding, and its response is that call's; a request
\* that has not ended made none.
C18_OneTerminalOutcome ==
    \A r \in Reqs :
        /\ Done(r) =>
              /\ Len(req[r].calls) = 1
              /\ req[r].calls[1] \in TerminalKinds
              /\ req[r].out.kind = req[r].calls[1]
              /\ req[r].out.kind = "action" =>
                    req[r].out.res = actionFunc(action, req[r].out.page)
              /\ req[r].out.kind = "bad_request" =>
                    req[r].out.res.status = StatusBadRequest
        /\ ~Done(r) => (req[r].calls = <<>> /\ req[r].out = NoOutcome)

C18_Witness ==
    \E r \in Reqs :
        /\ Done(r) /\ Parsed(r) /\ req[r].country.err
        /\ req[r].calls = <<"action">> /\ req[r].out.kind = "action"
        /\ filter.kind = "none"

\* C19: the address of a request is X-Forwarded-For when that is not empty,
\* else X-Real-Ip when that is not empty, else the remote address of the
\* connection.
C19_AddressPrecedence ==
    \A r \in Reqs :
        req[r].pc # "idle" =>
            LET in == req[r].in IN
            /\ in.xff # Empty => req[r].addr = in.xff
            /\ (in.xff = Empty /\ in.realIp # Empty) => req[r].addr = in.realIp
            /\ (in.xff = Empty /\ in.realIp = Empty) => req[r].addr = in.remoteAddr

C19_Witness ==
    \E r \in Reqs :
        /\ Done(r) /\ req[r].in.xff = <<"::3">> /\ req[r].in.realIp = <<"2.2.2.2">>
        /\ req[r].addr = <<"::3">> /\ req[r].ip = "::3" /\ req[r].country.err

\* The event is for the database: its path is the configured path or the
\* file that path leads to.
NamesDb(event) == Clean(event.Name) \in {dbPath, DbEntry}

\* C20: the watcher starts a reload for an event exactly when the event
\* includes Write or Create and is for the database path (the file being
\* there); no other event starts one, and without a reload nothing is
\* swapped.
C20_ReloadIffWriteOrCreateOfDb ==
    /\ [][(watcher.pc = "select" /\ events # <<>> /\ events' = Tail(events)
             /\ dbFile # "missing")
            => ((watcher'.pc = "load")
                  <=> (NamesDb(Head(events))
                         /\ Head(events).Op \cap {"Write", "Create"} # {}))]_vars
    /\ [][(watcher.pc = "select" /\ watcher'.pc = "select") => db' = db \/ db = NoHandle]_vars

\* C21: when the database path is a symlink and the symlink is replaced, the
\* Create event for the configured path is matched and starts a reload.
C21_SymlinkReplaceReloads ==
    [][(/\ watcher.pc = "select" /\ events # <<>> /\ events' = Tail(events)
        /\ dbLink = "symlink" /\ dbFile # "missing"
        /\ Clean(Head(events).Name) = dbPath
        /\ Head(events).Op \cap writeOrCreateMask # {})
          => watcher'.pc = "load"]_vars

\* The watcher has come back from a reload whose file could not be opened.
ReloadFailed == watcher.pc = "log" /\ watcher.err /\ watcher.newDb = NoHandle

\* C22: after a reload that failed to open the file while the proxy is
\* serving, the watcher goes back to receiving events, and from then on a
\* reload that has opened a valid file ends with the new handle swapped in.
C22_FailedReloadKeepsWatching ==
    /\ (ReloadFailed /\ mpc = "serving") ~> (watcher.pc = "select")
    /\ []((ReloadFailed /\ mpc = "serving")
            => []((watcher.pc = "lock") => <>(watcher.pc = "close" /\ db = watcher.newDb)))

\* The watcher goroutine has returned.
Stopped == watcher.pc = "stopped"

\* C23: the watcher goroutine that gets an error from the subscription or
\* finds a channel closed stops without ending the process; afterwards
\* nothing is reloaded or swapped, the current handle stays open and
\* current, and the process keeps serving.
C23_StoppedWatcherKeepsServing ==
    /\ [][(watcher_error \/ watcher_closed) => (watcher'.pc = "stopped" /\ fatal' = "")]_vars
    /\ [][Stopped => watcher' = watcher]_vars
    /\ [][(Stopped /\ mpc = "serving") => (db' = db /\ handles' = handles)]_vars
    /\ [](Stopped => fatal = "")
    /\ [](\A r \in Reqs : (Stopped /\ Done(r)) => req[r].out.kind \in TerminalKinds)

\* reloadGeoDb has returned after a swap.
Swapped == watcher.pc = "log" /\ watcher.newDb # NoHandle

\* C24: when the swap is done, whether closing the old handle failed or
\* not, the new handle is the current one and is open, the reload is logged
\* as done, and the watcher goes on.
C24_CloseErrorKeepsSwap ==
    /\ [](Swapped =>
            /\ db = watcher.newDb /\ handles[db].open
            /\ logEntry(watcher.err).msg = "Geo DB is reloaded")
    /\ [][(Swapped /\ watcher' # watcher) => (watcher'.pc = "select" /\ db' = db)]_vars

\* A request that the handler has forwarded to the upstream.
Forwarded(r) == Done(r) /\ req[r].out.kind = "forward"

\* C25: every forwarded request goes out with the URL scheme, the URL host and
\* the Host field of the upstream target, and with X-Forwarded-Host equal to
\* the host of the inbound request.
C25_ForwardRewritesHost ==
    \A r \in Reqs :
        Forwarded(r) =>
            /\ req[r].fwd.URL.Host = targetUrl.Host
            /\ req[r].fwd.URL.Scheme = targetUrl.Scheme
            /\ req[r].fwd.Host = targetUrl.Host
            /\ HeaderGet(req[r].fwd.Header, "X-Forwarded-Host") = req[r].in.host

\* startWatchingDb waits on setupWG although the goroutine that runs
\* setupDbWatcher has returned: nobody is left to call Done.
BlockedForever ==
    mpc = "setupWG.Wait" /\ setup.pc = "returned" /\ setup.setupWG > 0

\* C26: startWatchingDb always returns to its caller: when fsnotify.NewWatcher
\* or watcher.Add fails, setupDbWatcher's return does not leave New blocked in
\* setupWG.Wait with nobody left to release it.
C26_StartWatchingDbReturns == ~BlockedForever

\* C27: a swap is performed only after Start has installed the initial handle:
\* the handle a swap supersedes and closes is never nil, and Start's unlocked
\* assignment never overwrites a handle the watcher has installed.
C27_SwapOnlyAfterStart ==
    /\ [][reloadGeoDb_swap => (mpc = "serving" /\ watcher.oldDb # NoHandle)]_vars
    /\ [][reloadGeoDb_Close => watcher.oldDb # NoHandle]_vars
    /\ [][Start_serve => db = NoHandle]_vars

\* C28: every handle is closed at most once and none is left open once the
\* process has shut down: the watcher's Close and Start's deferred Close each
\* act on a handle that is still open, and after the exit no handle is open.
C28_ClosedExactlyOnce ==
    /\ [][(reloadGeoDb_Close /\ watcher.oldDb # NoHandle) => handles[watcher.oldDb].open]_vars
    /\ [][(Start_deferredClose /\ db # NoHandle) => handles[db].open]_vars
    /\ [](mpc = "exit" => \A h \in DOMAIN handles : ~handles[h].open)

\* The X-Geo-Country value the upstream reads from a forwarded request.
UpstreamGeo(r) == HeaderGet(req[r].fwd.Header, geoHeaderName)

\* C29: the X-Geo-Country value the upstream sees depends only on the country
\* the proxy resolved: two forwarded requests with the same resolved code go
\* out with the same value, the resolved code, whatever X-Geo-Country header
\* each client sent.
C29_GeoHeaderFromResolvedOnly ==
    \A r1, r2 \in Reqs :
        (/\ Forwarded(r1) /\ Forwarded(r2)
         /\ req[r1].country.IsoCode = req[r2].country.IsoCode)
        => /\ UpstreamGeo(r1) = UpstreamGeo(r2)
           /\ UpstreamGeo(r1) = req[r1].country.IsoCode

C29_Witness ==
    \E r1, r2 \in Reqs :
        /\ Forwarded(r1) /\ Forwarded(r2)
        /\ req[r1].country.IsoCode = "US" /\ req[r2].country.IsoCode = "US"
        /\ req[r1].in.geo = "DE" /\ req[r2].in.geo = "ZZ"
        /\ UpstreamGeo(r1) = "US" /\ UpstreamGeo(r2) = "US"
====
